---- MODULE Spec2Model ----
(***************************************************************************)
(* Model of src/lib/xml/metadata.c: the SAX callbacks that track the open  *)
(* elements of a metadata.xml document in a bitmask, the character         *)
(* callback that copies text into a SolMetadata record, and                *)
(* sol_metadata_load, which drives libxml2 over one document.              *)
(*                                                                         *)
(* libxml2 is the tokenizer. It is modelled by what it does to this file:  *)
(* it keeps the stack of open elements, calls startElement / endElement /  *)
(* characters in document order, and on the first fatal error clears       *)
(* wellFormed and stops calling the handler (recovery is off for a context *)
(* made by xmlCreateFileParserCtxt).                                       *)
(***************************************************************************)
EXTENDS Integers, Sequences, FiniteSets, TLC

\* ---------------------------------------------------------------- bounds
MaxDepth == 3      \* deepest element nesting the tokenizer is driven to
MaxLen == 2        \* longest character run handed to the characters callback
MaxLoads == 2      \* sol_metadata_load calls on the one record
MaxTagDepth == 4   \* deepest nesting when only the tag callbacks are driven

\* ------------------------------------------------- SolMetadataParseFlags
MDATA_MIN == 1
MDATA_ROOT == 2
MDATA_PACKAGE == 4
MDATA_HISTORY == 8
MDATA_SOURCE == 16
MDATA_NAME == 32
MDATA_COMPONENT == 64
MDATA_PACKAGER == 128
MDATA_EMAIL == 256

\* A char* is <<>> (NULL) or <<s>> (a pointer to the string s).
NULL == <<>>

\* The bitwise operators of C on the non-negative values of the enum.
RECURSIVE BitAnd(_, _)
BitAnd(a, b) ==
    IF a = 0 \/ b = 0 THEN 0
    ELSE (a % 2) * (b % 2) + 2 * BitAnd(a \div 2, b \div 2)

RECURSIVE BitOr(_, _)
BitOr(a, b) ==
    IF a = 0 THEN b
    ELSE IF b = 0 THEN a
    ELSE (IF a % 2 = 1 \/ b % 2 = 1 THEN 1 ELSE 0) + 2 * BitOr(a \div 2, b \div 2)

RECURSIVE BitXor(_, _)
BitXor(a, b) ==
    IF a = 0 THEN b
    ELSE IF b = 0 THEN a
    ELSE ((a + b) % 2) + 2 * BitXor(a \div 2, b \div 2)

\* Variant: the Packager entry carries the flag of the Package entry.
meta_mapping_typo ==
    << [key |-> "Package", flag |-> MDATA_PACKAGE],
       [key |-> "History", flag |-> MDATA_HISTORY],
       [key |-> "Source", flag |-> MDATA_SOURCE],
       [key |-> "Name", flag |-> MDATA_NAME],
       [key |-> "PartOf", flag |-> MDATA_COMPONENT],
       [key |-> "Packager", flag |-> MDATA_PACKAGE],
       [key |-> "Email", flag |-> MDATA_EMAIL] >>

\* meta_mapping without its { 0 } terminator, which only ends the scan.
meta_mapping ==
    << [key |-> "Package", flag |-> MDATA_PACKAGE],
       [key |-> "History", flag |-> MDATA_HISTORY],
       [key |-> "Source", flag |-> MDATA_SOURCE],
       [key |-> "Name", flag |-> MDATA_NAME],
       [key |-> "PartOf", flag |-> MDATA_COMPONENT],
       [key |-> "Packager", flag |-> MDATA_PACKAGER],
       [key |-> "Email", flag |-> MDATA_EMAIL] >>

\* calloc'ed record: both fields NULL.
sol_metadata_new == [package_name |-> NULL, component |-> NULL]

\* ------------------------------------------------------------- callbacks
\* Variant: every position counts as inside the root.
sol_sax_in_root_always(flags) == TRUE

\* Variant: any set flag counts as being inside the root.
sol_sax_in_root_nonzero(flags) == flags # 0

sol_sax_in_root(flags) == BitAnd(flags, MDATA_ROOT) # 0

\* Variant: a matching name sets the flag instead of flipping it.
sol_sax_flip_state_set(flags, name, key, flag) ==
    IF name # key
    THEN [hit |-> FALSE, flags |-> flags]
    ELSE [hit |-> TRUE, flags |-> BitOr(flags, flag)]

\* Returns whether the name matched and the flags afterwards.
sol_sax_flip_state(flags, name, key, flag) ==
    IF name # key
    THEN [hit |-> FALSE, flags |-> flags]
    ELSE [hit |-> TRUE, flags |-> BitXor(flags, flag)]

\* The scan of meta_mapping from entry i on.
RECURSIVE flip_mapping(_, _, _)
flip_mapping(flags, name, i) ==
    IF i > Len(meta_mapping) THEN flags
    ELSE LET r == sol_sax_flip_state(flags, name, meta_mapping[i].key,
                                     meta_mapping[i].flag)
         IN IF r.hit THEN r.flags ELSE flip_mapping(flags, name, i + 1)

\* Variant: only the PISI spelling of the root is handled.
sol_sax_flip_states_pisi_only(flags, name) ==
    LET pisi == sol_sax_flip_state(flags, name, "PISI", MDATA_ROOT)
    IN IF pisi.hit THEN pisi.flags
       ELSE IF ~sol_sax_in_root(flags) THEN flags
       ELSE flip_mapping(flags, name, 1)

\* Variant: a root tag met inside the root clears every flag.
sol_sax_flip_states_reset(flags, name) ==
    IF name = "PISI" \/ name = "SOL"
    THEN (IF sol_sax_in_root(flags) THEN 0 ELSE BitXor(flags, MDATA_ROOT))
    ELSE IF ~sol_sax_in_root(flags) THEN flags
    ELSE flip_mapping(flags, name, 1)

sol_sax_flip_states(flags, name) ==
    LET pisi == sol_sax_flip_state(flags, name, "PISI", MDATA_ROOT)
        sol == sol_sax_flip_state(pisi.flags, name, "SOL", MDATA_ROOT)
    IN IF pisi.hit THEN pisi.flags
       ELSE IF sol.hit THEN sol.flags
       ELSE IF ~sol_sax_in_root(flags) THEN flags
       ELSE flip_mapping(flags, name, 1)

sol_sax_start_element(flags, name) == sol_sax_flip_states(flags, name)

\* Variant: the end handler does not flip anything.
sol_sax_end_element_noop(flags, name) == flags

sol_sax_end_element(flags, name) == sol_sax_flip_states(flags, name)

\* strndup(ch, len): a new string of the first len characters of ch.
strndup(ch, len) == << SubSeq(ch, 1, IF len < Len(ch) THEN len ELSE Len(ch)) >>

\* Variant: the package-name test leaves MDATA_ROOT out of the expected mask.
sol_sax_characters_no_root(self, ch, len) ==
    IF self.flags = BitOr(MDATA_PACKAGE, MDATA_NAME)
    THEN [metadata |-> [self.metadata EXCEPT !.package_name = strndup(ch, len)],
          field |-> "package_name"]
    ELSE IF BitAnd(self.flags, MDATA_COMPONENT) # 0
    THEN [metadata |-> [self.metadata EXCEPT !.component = strndup(ch, len)],
          field |-> "component"]
    ELSE [metadata |-> self.metadata, field |-> "none"]

\* Variant: the package-name test leaves MDATA_PACKAGE out of the expected mask.
sol_sax_characters_no_package(self, ch, len) ==
    IF self.flags = BitOr(MDATA_ROOT, MDATA_NAME)
    THEN [metadata |-> [self.metadata EXCEPT !.package_name = strndup(ch, len)],
          field |-> "package_name"]
    ELSE IF BitAnd(self.flags, MDATA_COMPONENT) # 0
    THEN [metadata |-> [self.metadata EXCEPT !.component = strndup(ch, len)],
          field |-> "component"]
    ELSE [metadata |-> self.metadata, field |-> "none"]

\* Variant: the package-name test is a containment test on MDATA_NAME.
sol_sax_characters_any_name(self, ch, len) ==
    IF BitAnd(self.flags, MDATA_NAME) # 0
    THEN [metadata |-> [self.metadata EXCEPT !.package_name = strndup(ch, len)],
          field |-> "package_name"]
    ELSE IF BitAnd(self.flags, MDATA_COMPONENT) # 0
    THEN [metadata |-> [self.metadata EXCEPT !.component = strndup(ch, len)],
          field |-> "component"]
    ELSE [metadata |-> self.metadata, field |-> "none"]

\* Variant: the component test is an exact test, as the package-name test is.
sol_sax_characters_exact_component(self, ch, len) ==
    IF self.flags = BitOr(MDATA_ROOT, BitOr(MDATA_PACKAGE, MDATA_NAME))
    THEN [metadata |-> [self.metadata EXCEPT !.package_name = strndup(ch, len)],
          field |-> "package_name"]
    ELSE IF self.flags = BitOr(MDATA_ROOT, MDATA_COMPONENT)
    THEN [metadata |-> [self.metadata EXCEPT !.component = strndup(ch, len)],
          field |-> "component"]
    ELSE [metadata |-> self.metadata, field |-> "none"]

\* Variant: the component test asks for the root flag as well.
sol_sax_characters_rooted_component(self, ch, len) ==
    IF self.flags = BitOr(MDATA_ROOT, BitOr(MDATA_PACKAGE, MDATA_NAME))
    THEN [metadata |-> [self.metadata EXCEPT !.package_name = strndup(ch, len)],
          field |-> "package_name"]
    ELSE IF BitAnd(self.flags, BitOr(MDATA_ROOT, MDATA_COMPONENT))
              = BitOr(MDATA_ROOT, MDATA_COMPONENT)
    THEN [metadata |-> [self.metadata EXCEPT !.component = strndup(ch, len)],
          field |-> "component"]
    ELSE [metadata |-> self.metadata, field |-> "none"]

\* Variant: a field that already holds a string is not assigned again.
sol_sax_characters_keep_first(self, ch, len) ==
    IF self.flags = BitOr(MDATA_ROOT, BitOr(MDATA_PACKAGE, MDATA_NAME))
    THEN [metadata |-> IF self.metadata.package_name # NULL THEN self.metadata
                       ELSE [self.metadata EXCEPT !.package_name = strndup(ch, len)],
          field |-> "package_name"]
    ELSE IF BitAnd(self.flags, MDATA_COMPONENT) # 0
    THEN [metadata |-> IF self.metadata.component # NULL THEN self.metadata
                       ELSE [self.metadata EXCEPT !.component = strndup(ch, len)],
          field |-> "component"]
    ELSE [metadata |-> self.metadata, field |-> "none"]

\* self is the SolMetadataParseContext; the result is the record afterwards
\* and the field the call assigned ("none" when it returned without one).
sol_sax_characters(self, ch, len) ==
    IF self.flags = BitOr(MDATA_ROOT, BitOr(MDATA_PACKAGE, MDATA_NAME))
    THEN [metadata |-> [self.metadata EXCEPT !.package_name = strndup(ch, len)],
          field |-> "package_name"]
    ELSE IF BitAnd(self.flags, MDATA_COMPONENT) # 0
    THEN [metadata |-> [self.metadata EXCEPT !.component = strndup(ch, len)],
          field |-> "component"]
    ELSE [metadata |-> self.metadata, field |-> "none"]

\* free(self->package_name); self->package_name = NULL;
clean_package_name(self) == [self EXCEPT !.package_name = NULL]

\* Variant: the string is freed but the pointer is not set to NULL.
clean_component_free_only(self) == self

\* free(self->component); self->component = NULL;
clean_component(self) == [self EXCEPT !.component = NULL]

sol_metadata_clean(self) == clean_component(clean_package_name(self))

\* ----------------------------------------------------- sol_metadata_load
\* Variant: instance is declared without an initializer and only .metadata
\* is assigned, so flags keeps what the storage held.
parse_context_init_garbage(garbage, meta) == [flags |-> garbage, metadata |-> meta]

\* SolMetadataParseContext instance = { .metadata = meta }: the initializer
\* zeroes flags, whatever the storage of instance held before (garbage).
parse_context_init(garbage, meta) == [flags |-> 0, metadata |-> meta]

\* Variant: the record is cleaned on this failure path as well.
load_no_context_clean(meta) == [metadata |-> sol_metadata_clean(meta), ret |-> FALSE]

\* The return when xmlCreateFileParserCtxt gave no context.
load_no_context(meta) == [metadata |-> meta, ret |-> FALSE]

\* Variant: the record is not cleaned when the document is malformed.
load_finish_no_clean(meta, good) == [metadata |-> meta, ret |-> good]

\* Variant: a document that gave no package name is reported as a failure.
load_finish_strict(meta, good) ==
    [metadata |-> IF ~good THEN sol_metadata_clean(meta) ELSE meta,
     ret |-> good /\ meta.package_name # NULL]

\* The tail of sol_metadata_load once xmlParseDocument has returned.
load_finish(meta, good) ==
    [metadata |-> IF ~good THEN sol_metadata_clean(meta) ELSE meta,
     ret |-> good]

\* ------------------------------------------------------------- tokenizer
RootNames == {"PISI", "SOL"}

\* Every key of the mapping, both root spellings, and a name the file
\* does not know.
TagNames ==
    RootNames \cup {meta_mapping[i].key : i \in 1..Len(meta_mapping)} \cup {"Foo"}

\* The character run of n characters as it lies in the input buffer: the
\* run itself, followed by the markup that ends it.
Text(n) == [i \in 1..n |-> "a"]

Buffer(n) == Text(n) \o <<"<">>

\* Exchange the two root spellings.
SwapRoot(name) ==
    IF name = "PISI" THEN "SOL" ELSE IF name = "SOL" THEN "PISI" ELSE name

Range(s) == {s[i] : i \in 1..Len(s)}

VARIABLES
    meta,        \* the SolMetadata record: package_name, component
    pc,          \* idle, or where xmlParseDocument is: prolog, content, epilog, parsed
    flags,       \* instance.flags of the running load
    stack,       \* the tokenizer's open elements, outermost first
    wellFormed,  \* ctx->wellFormed
    ret,         \* what the last sol_metadata_load returned
    loads,       \* sol_metadata_load calls made so far
    outcome,     \* how the last call ended: none, noctx, bad, good
    prev,        \* the record as it was when the current/last call began
    cb,          \* whether a callback ran in the current/last call
    wrote,       \* the field the characters callback just assigned: "none" when
                 \* it assigned nothing, "-" when the latest step was not that callback
    fresh,       \* what the document of this call alone yields
    lastGood,    \* fresh of the most recent well-formed document
    flagsSw,     \* instance.flags of the same load fed the root-swapped document
    metaSw,      \* the record of that root-swapped load
    script,      \* events of the chosen document still to come (scripted loads)
    src,         \* the document chosen for the current/last scripted load
    left,        \* instance.flags as the call before the current one left them
    text,        \* the text handed to the characters callback in the latest
                 \* step, << >> when that step was not the callback
    seen,        \* flag names with an odd number of tag events seen in this load
    applied,     \* flag names with an odd number of tag events that arrived
                 \* while the root was open (root tags always count)
    offSchema,   \* the ways this load's stream has left the schema
    t2,          \* a second thread loading into the same record
    overlap      \* whether the two threads' loads have overlapped in time

vars == << meta, pc, flags, stack, wellFormed, ret, loads, outcome, prev, cb,
           wrote, fresh, lastGood, flagsSw, metaSw, script, src, left, text,
           seen, applied, offSchema, t2, overlap >>

\* The second thread before it calls sol_metadata_load.
Thread2Idle ==
    [pc |-> "idle", flags |-> 0, stack |-> << >>, script |-> << >>,
     src |-> << >>, wellFormed |-> TRUE, ret |-> FALSE]

Init ==
    /\ meta = sol_metadata_new
    /\ pc = "idle"
    /\ flags = 0
    /\ stack = << >>
    /\ wellFormed = TRUE
    /\ ret = FALSE
    /\ loads = 0
    /\ outcome = "none"
    /\ prev = sol_metadata_new
    /\ cb = FALSE
    /\ wrote = "-"
    /\ fresh = sol_metadata_new
    /\ lastGood = sol_metadata_new
    /\ flagsSw = 0
    /\ metaSw = sol_metadata_new
    /\ script = << >>
    /\ src = << >>
    /\ left = 0
    /\ text = << >>
    /\ seen = {}
    /\ applied = {}
    /\ offSchema = {}
    /\ t2 = Thread2Idle
    /\ overlap = FALSE

\* sol_metadata_load when xmlCreateFileParserCtxt fails.
LoadNoContext ==
    /\ pc = "idle"
    /\ LET r == load_no_context(meta)
           rs == load_no_context(metaSw)
       IN /\ meta' = r.metadata
          /\ ret' = r.ret
          /\ metaSw' = rs.metadata
    /\ prev' = meta
    /\ cb' = FALSE
    /\ wrote' = "-"
    /\ outcome' = "noctx"
    /\ loads' = loads + 1
    /\ UNCHANGED << pc, flags, stack, wellFormed, fresh, lastGood, flagsSw >>

\* sol_metadata_load up to the call of xmlParseDocument: instance is
\* zero-initialised apart from .metadata, the context starts well formed.
LoadBegin ==
    /\ pc = "idle"
    /\ pc' = "prolog"
    /\ flags' = parse_context_init(flags, meta).flags
    /\ flagsSw' = parse_context_init(flagsSw, metaSw).flags
    /\ stack' = << >>
    /\ wellFormed' = TRUE
    /\ prev' = meta
    /\ cb' = FALSE
    /\ wrote' = "-"
    /\ fresh' = sol_metadata_new
    /\ loads' = loads + 1
    /\ UNCHANGED << meta, metaSw, ret, outcome, lastGood >>

\* A start tag: the tokenizer pushes the element and calls startElement.
StartElement(name) ==
    /\ pc \in {"prolog", "content"}
    /\ stack' = Append(stack, name)
    /\ pc' = "content"
    /\ flags' = sol_sax_start_element(flags, name)
    /\ flagsSw' = sol_sax_start_element(flagsSw, SwapRoot(name))
    /\ cb' = TRUE
    /\ wrote' = "-"
    /\ UNCHANGED << meta, metaSw, fresh, wellFormed, ret, loads, outcome,
                    prev, lastGood >>

\* The end tag of the innermost open element: endElement, then pop.
EndElement ==
    /\ pc = "content"
    /\ stack # << >>
    /\ LET name == stack[Len(stack)]
       IN /\ flags' = sol_sax_end_element(flags, name)
          /\ flagsSw' = sol_sax_end_element(flagsSw, SwapRoot(name))
    /\ stack' = SubSeq(stack, 1, Len(stack) - 1)
    /\ pc' = IF Len(stack) = 1 THEN "epilog" ELSE "content"
    /\ cb' = TRUE
    /\ wrote' = "-"
    /\ UNCHANGED << meta, metaSw, fresh, wellFormed, ret, loads, outcome,
                    prev, lastGood >>

\* A run of len characters inside an element.
Characters(len) ==
    /\ pc = "content"
    /\ LET r == sol_sax_characters([flags |-> flags, metadata |-> meta],
                                   Buffer(len), len)
           rf == sol_sax_characters([flags |-> flags, metadata |-> fresh],
                                    Buffer(len), len)
           rs == sol_sax_characters([flags |-> flagsSw, metadata |-> metaSw],
                                    Buffer(len), len)
       IN /\ meta' = r.metadata
          /\ wrote' = r.field
          /\ fresh' = rf.metadata
          /\ metaSw' = rs.metadata
    /\ cb' = TRUE
    /\ UNCHANGED << pc, flags, flagsSw, stack, wellFormed, ret, loads,
                    outcome, prev, lastGood >>

\* A fatal syntax error: wellFormed is cleared, SAX is disabled, and
\* xmlParseDocument returns.
FatalError ==
    /\ pc \in {"prolog", "content", "epilog"}
    /\ wellFormed' = FALSE
    /\ pc' = "parsed"
    /\ wrote' = "-"
    /\ UNCHANGED << meta, metaSw, fresh, flags, flagsSw, stack, ret, loads,
                    outcome, prev, cb, lastGood >>

\* The end of the input after the document element has closed.
EndDocument ==
    /\ pc = "epilog"
    /\ pc' = "parsed"
    /\ wrote' = "-"
    /\ UNCHANGED << meta, metaSw, fresh, flags, flagsSw, stack, wellFormed,
                    ret, loads, outcome, prev, cb, lastGood >>

\* sol_metadata_load after xmlParseDocument.
LoadFinish ==
    /\ pc = "parsed"
    /\ LET r == load_finish(meta, wellFormed)
           rs == load_finish(metaSw, wellFormed)
       IN /\ meta' = r.metadata
          /\ ret' = r.ret
          /\ metaSw' = rs.metadata
    /\ outcome' = IF wellFormed THEN "good" ELSE "bad"
    /\ lastGood' = IF wellFormed THEN fresh ELSE lastGood
    /\ pc' = "idle"
    /\ wrote' = "-"
    /\ UNCHANGED << fresh, flags, flagsSw, stack, wellFormed, loads, prev, cb >>

\* ---- one load of any document into a new record: the tokenizer's events
\* are chosen freely
NewRecord == loads = 0

\* What a step leaves alone when it is not a step of a scripted load, of
\* the tag-tracker specification, or of the two-thread specification.
NoDoc == UNCHANGED << script, src, left >>

NoTags == UNCHANGED << seen, applied, offSchema >>

NoPar == UNCHANGED << t2, overlap >>

NoText == text' = << >>

Next ==
    \/ NewRecord /\ LoadNoContext /\ NoText /\ NoDoc /\ NoTags /\ NoPar
    \/ NewRecord /\ LoadBegin /\ NoText /\ NoDoc /\ NoTags /\ NoPar
    \/ \E name \in TagNames :
          Len(stack) < MaxDepth /\ StartElement(name)
              /\ NoText /\ NoDoc /\ NoTags /\ NoPar
    \/ EndElement /\ NoText /\ NoDoc /\ NoTags /\ NoPar
    \/ \E len \in 1..MaxLen :
          Characters(len) /\ NoText /\ NoDoc /\ NoTags /\ NoPar
    \/ FatalError /\ NoText /\ NoDoc /\ NoTags /\ NoPar
    \/ EndDocument /\ NoText /\ NoDoc /\ NoTags /\ NoPar
    \/ LoadFinish /\ NoText /\ NoDoc /\ NoTags /\ NoPar

Spec == Init /\ [][Next]_vars

\* ---- the same single load, with the text handed to the characters
\* callback kept in text for the step that consumes it
TextRest == UNCHANGED << script, src, left, seen, applied, offSchema, t2, overlap >>

TextLoadNoContext == NewRecord /\ LoadNoContext /\ NoText /\ TextRest

TextLoadBegin == NewRecord /\ LoadBegin /\ NoText /\ TextRest

TextStartElement ==
    \E name \in TagNames :
        Len(stack) < MaxDepth /\ StartElement(name) /\ NoText /\ TextRest

TextEndElement == EndElement /\ NoText /\ TextRest

TextCharacters ==
    \E len \in 1..MaxLen : Characters(len) /\ text' = Text(len) /\ TextRest

TextFatalError == FatalError /\ NoText /\ TextRest

TextEndDocument == EndDocument /\ NoText /\ TextRest

TextLoadFinish == LoadFinish /\ NoText /\ TextRest

NextText ==
    \/ TextLoadNoContext
    \/ TextLoadBegin
    \/ TextStartElement
    \/ TextEndElement
    \/ TextCharacters
    \/ TextFatalError
    \/ TextEndDocument
    \/ TextLoadFinish

SpecText == Init /\ [][NextText]_vars

\* ---- one load of any document, the tag callbacks only: the characters
\* callback never touches the flags, so it is left out and the nesting can
\* go one level deeper
FlagNames ==
    {"root", "Package", "History", "Source", "Name", "PartOf", "Packager", "Email"}

\* The flag of the active-state set that a tag name stands for.
FlagOfTag(name) == IF name \in RootNames THEN "root" ELSE name

Recognised(name) == FlagOfTag(name) \in FlagNames

Toggle(S, n) == IF n \in S THEN S \ {n} ELSE S \cup {n}

\* The history of one tag event: the parity of the events seen, the parity
\* of the events that arrived inside the root, and, for a start tag, how the
\* stream leaves the schema (outermost element not a root, or a recognised
\* name opened while it is open already).
TagHistory(name, opening) ==
    /\ seen' = IF Recognised(name) THEN Toggle(seen, FlagOfTag(name)) ELSE seen
    /\ applied' = IF name \in RootNames THEN Toggle(applied, "root")
                  ELSE IF "root" \in applied /\ Recognised(name)
                  THEN Toggle(applied, name)
                  ELSE applied
    /\ offSchema' =
         IF ~opening THEN offSchema
         ELSE offSchema
               \cup (IF stack = << >> /\ name \notin RootNames
                     THEN {"outer"} ELSE {})
               \cup (IF Recognised(name)
                        /\ FlagOfTag(name) \in {FlagOfTag(stack[i]) : i \in 1..Len(stack)}
                     THEN {"nested"} ELSE {})

TagRest == NoText /\ NoDoc /\ NoPar

TagLoadBegin == NewRecord /\ LoadBegin /\ NoTags /\ TagRest

TagStartElement ==
    \E name \in TagNames :
        /\ Len(stack) < MaxTagDepth
        /\ StartElement(name)
        /\ TagHistory(name, TRUE)
        /\ TagRest

TagEndElement ==
    /\ EndElement
    /\ TagHistory(stack[Len(stack)], FALSE)
    /\ TagRest

TagFatalError == FatalError /\ NoTags /\ TagRest

TagEndDocument == EndDocument /\ NoTags /\ TagRest

TagLoadFinish == LoadFinish /\ NoTags /\ TagRest

NextTags ==
    \/ TagLoadBegin
    \/ TagStartElement
    \/ TagEndElement
    \/ TagFatalError
    \/ TagEndDocument
    \/ TagLoadFinish

SpecTags == Init /\ [][NextTags]_vars

\* ---- up to MaxLoads loads of chosen documents into the one record: the
\* tokenizer reads a fixed sequence of events
Open(n) == [type |-> "open", name |-> n, len |-> 0]

Close(n) == [type |-> "close", name |-> n, len |-> 0]

Chars(k) == [type |-> "chars", name |-> "", len |-> k]

Element(n, body) == << Open(n) >> \o body \o << Close(n) >>

\* <root><Package><Name>Text(k)</Name></Package></root>
DocName(root, k) ==
    Element(root, Element("Package", Element("Name", << Chars(k) >>)))

\* <root><PartOf>Text(k)</PartOf></root>
DocPartOf(root, k) == Element(root, Element("PartOf", << Chars(k) >>))

\* <root><History><PartOf>Text(k)</PartOf></History></root>
DocHistoryPartOf(root, k) ==
    Element(root, Element("History", Element("PartOf", << Chars(k) >>)))

\* <root><Package><Name>Text(k)</Name></Package><PartOf>Text(j)</PartOf></root>
DocBoth(root, k, j) ==
    Element(root, Element("Package", Element("Name", << Chars(k) >>))
                    \o Element("PartOf", << Chars(j) >>))

\* <Foo>Text(k)</Foo>: no element the file knows
DocUnknown(k) == Element("Foo", << Chars(k) >>)

\* <root><Package><Name>Text(k) Text(j)</Name></Package></root>, the text
\* of Name delivered in two runs
DocTwoNames(root, k, j) ==
    Element(root, Element("Package", Element("Name", << Chars(k), Chars(j) >>)))

\* <root><PartOf>Text(k) Text(j)</PartOf></root>, the text in two runs
DocTwoPartOf(root, k, j) ==
    Element(root, Element("PartOf", << Chars(k), Chars(j) >>))

\* <root><PartOf>Text(k)</root>: the end tag does not match
DocMismatch(root, k) == << Open(root), Open("PartOf"), Chars(k), Close(root) >>

\* <Foo></Foo><Foo>: content after the document element
DocExtra == Element("Foo", << >>) \o << Open("Foo") >>

WellFormedDocs ==
    UNION { { DocName(root, k), DocPartOf(root, k), DocHistoryPartOf(root, k),
              DocBoth(root, k, MaxLen + 1 - k), DocUnknown(k),
              DocTwoNames(root, k, MaxLen + 1 - k),
              DocTwoPartOf(root, k, MaxLen + 1 - k) } :
            root \in RootNames, k \in 1..MaxLen }

\* The well-formed documents, each of them cut short at every point, and
\* the two documents with a syntax error inside.
Docs ==
    UNION { { SubSeq(d, 1, n) : n \in 0..Len(d) } : d \in WellFormedDocs }
      \cup { DocMismatch(root, k) : root \in RootNames, k \in 1..MaxLen }
      \cup { DocExtra }

CanStart ==
    /\ script # << >>
    /\ Head(script).type = "open"
    /\ pc \in {"prolog", "content"}

CanEnd ==
    /\ script # << >>
    /\ Head(script).type = "close"
    /\ pc = "content"
    /\ Head(script).name = stack[Len(stack)]

CanChars ==
    /\ script # << >>
    /\ Head(script).type = "chars"
    /\ pc = "content"

CanEndDocument == script = << >> /\ pc = "epilog"

\* What a step of a scripted load leaves alone.
DocRest == UNCHANGED << text, seen, applied, offSchema, t2, overlap >>

DocLoadNoContext ==
    /\ loads < MaxLoads
    /\ LoadNoContext
    /\ script' = << >>
    /\ src' = << >>
    /\ UNCHANGED left
    /\ DocRest

DocLoadBegin ==
    /\ loads < MaxLoads
    /\ LoadBegin
    /\ \E d \in Docs : script' = d /\ src' = d
    /\ left' = flags
    /\ DocRest

DocStartElement ==
    CanStart /\ StartElement(Head(script).name) /\ script' = Tail(script)
             /\ UNCHANGED << src, left >> /\ DocRest

DocEndElement ==
    CanEnd /\ EndElement /\ script' = Tail(script)
           /\ UNCHANGED << src, left >> /\ DocRest

DocCharacters ==
    CanChars /\ Characters(Head(script).len) /\ script' = Tail(script)
             /\ UNCHANGED << src, left >> /\ DocRest

DocFatalError ==
    /\ ~(CanStart \/ CanEnd \/ CanChars \/ CanEndDocument)
    /\ FatalError
    /\ UNCHANGED << script, src, left >>
    /\ DocRest

DocEndDocument ==
    CanEndDocument /\ EndDocument /\ UNCHANGED << script, src, left >> /\ DocRest

DocLoadFinish == LoadFinish /\ UNCHANGED << script, src, left >> /\ DocRest

NextDoc ==
    \/ DocLoadNoContext
    \/ DocLoadBegin
    \/ DocStartElement
    \/ DocEndElement
    \/ DocCharacters
    \/ DocFatalError
    \/ DocEndDocument
    \/ DocLoadFinish

SpecDoc == Init /\ [][NextDoc]_vars
\* ---- two threads, each calling sol_metadata_load once on the same record.
\* Nothing in the file synchronises them, so their callbacks and the two
\* halves of sol_metadata_clean interleave freely. The first thread runs in
\* the variables of the single-threaded load, the second in t2.
ParDocs ==
    { DocBoth("PISI", k, MaxLen + 1 - k) : k \in 1..MaxLen }
      \cup { DocMismatch("SOL", k) : k \in 1..MaxLen }

InFlight(p) == p \in {"prolog", "content", "epilog", "parsed", "cleaning"}

\* What a step of the second thread leaves alone: all of the first thread.
Thread1 ==
    << pc, flags, stack, wellFormed, ret, loads, outcome, prev, cb, wrote,
       fresh, lastGood, flagsSw, metaSw, script, src, left, text, seen,
       applied, offSchema >>

\* What a step of the first thread leaves alone.
P1Rest == UNCHANGED << t2, left, text, seen, applied, offSchema >>

P1LoadBegin ==
    /\ NewRecord
    /\ LoadBegin
    /\ \E d \in ParDocs : script' = d /\ src' = d
    /\ overlap' = (overlap \/ InFlight(t2.pc))
    /\ P1Rest

P1StartElement ==
    CanStart /\ StartElement(Head(script).name) /\ script' = Tail(script)
             /\ UNCHANGED << src, overlap >> /\ P1Rest

P1EndElement ==
    CanEnd /\ EndElement /\ script' = Tail(script)
           /\ UNCHANGED << src, overlap >> /\ P1Rest

P1Characters ==
    CanChars /\ Characters(Head(script).len) /\ script' = Tail(script)
             /\ UNCHANGED << src, overlap >> /\ P1Rest

P1FatalError ==
    /\ ~(CanStart \/ CanEnd \/ CanChars \/ CanEndDocument)
    /\ FatalError
    /\ UNCHANGED << script, src, overlap >>
    /\ P1Rest

P1EndDocument ==
    CanEndDocument /\ EndDocument /\ UNCHANGED << script, src, overlap >> /\ P1Rest

\* The tail of sol_metadata_load for a well-formed document: nothing is cleaned.
P1FinishGood ==
    wellFormed /\ LoadFinish /\ UNCHANGED << script, src, overlap >> /\ P1Rest

\* The first half of sol_metadata_clean for a malformed document.
P1CleanName ==
    /\ pc = "parsed"
    /\ ~wellFormed
    /\ meta' = clean_package_name(meta)
    /\ pc' = "cleaning"
    /\ UNCHANGED << flags, stack, wellFormed, ret, loads, outcome, prev, cb,
                    wrote, fresh, lastGood, flagsSw, metaSw, script, src,
                    overlap >>
    /\ P1Rest

\* The second half, and the return of false.
P1CleanComponent ==
    /\ pc = "cleaning"
    /\ meta' = clean_component(meta)
    /\ ret' = FALSE
    /\ outcome' = "bad"
    /\ pc' = "idle"
    /\ UNCHANGED << flags, stack, wellFormed, loads, prev, cb, wrote, fresh,
                    lastGood, flagsSw, metaSw, script, src, overlap >>
    /\ P1Rest

T2CanStart ==
    /\ t2.script # << >>
    /\ Head(t2.script).type = "open"
    /\ t2.pc \in {"prolog", "content"}

T2CanEnd ==
    /\ t2.script # << >>
    /\ Head(t2.script).type = "close"
    /\ t2.pc = "content"
    /\ Head(t2.script).name = t2.stack[Len(t2.stack)]

T2CanChars ==
    /\ t2.script # << >>
    /\ Head(t2.script).type = "chars"
    /\ t2.pc = "content"

T2CanEndDocument == t2.script = << >> /\ t2.pc = "epilog"

T2LoadBegin ==
    /\ t2.pc = "idle"
    /\ \E d \in ParDocs :
          t2' = [t2 EXCEPT !.pc = "prolog",
                           !.flags = parse_context_init(t2.flags, meta).flags,
                           !.stack = << >>,
                           !.wellFormed = TRUE,
                           !.script = d,
                           !.src = d]
    /\ overlap' = (overlap \/ InFlight(pc))
    /\ UNCHANGED meta
    /\ UNCHANGED Thread1

T2StartElement ==
    /\ T2CanStart
    /\ LET name == Head(t2.script).name
       IN t2' = [t2 EXCEPT !.pc = "content",
                           !.flags = sol_sax_start_element(t2.flags, name),
                           !.stack = Append(t2.stack, name),
                           !.script = Tail(t2.script)]
    /\ UNCHANGED << meta, overlap >>
    /\ UNCHANGED Thread1

T2EndElement ==
    /\ T2CanEnd
    /\ LET name == t2.stack[Len(t2.stack)]
       IN t2' = [t2 EXCEPT !.pc = IF Len(t2.stack) = 1 THEN "epilog" ELSE "content",
                           !.flags = sol_sax_end_element(t2.flags, name),
                           !.stack = SubSeq(t2.stack, 1, Len(t2.stack) - 1),
                           !.script = Tail(t2.script)]
    /\ UNCHANGED << meta, overlap >>
    /\ UNCHANGED Thread1

T2Characters ==
    /\ T2CanChars
    /\ LET len == Head(t2.script).len
       IN meta' = sol_sax_characters([flags |-> t2.flags, metadata |-> meta],
                                     Buffer(len), len).metadata
    /\ t2' = [t2 EXCEPT !.script = Tail(t2.script)]
    /\ UNCHANGED overlap
    /\ UNCHANGED Thread1

T2FatalError ==
    /\ t2.pc \in {"prolog", "content", "epilog"}
    /\ ~(T2CanStart \/ T2CanEnd \/ T2CanChars \/ T2CanEndDocument)
    /\ t2' = [t2 EXCEPT !.wellFormed = FALSE, !.pc = "parsed"]
    /\ UNCHANGED << meta, overlap >>
    /\ UNCHANGED Thread1

T2EndDocument ==
    /\ T2CanEndDocument
    /\ t2' = [t2 EXCEPT !.pc = "parsed"]
    /\ UNCHANGED << meta, overlap >>
    /\ UNCHANGED Thread1

T2FinishGood ==
    /\ t2.pc = "parsed"
    /\ t2.wellFormed
    /\ t2' = [t2 EXCEPT !.pc = "done", !.ret = TRUE]
    /\ UNCHANGED << meta, overlap >>
    /\ UNCHANGED Thread1

T2CleanName ==
    /\ t2.pc = "parsed"
    /\ ~t2.wellFormed
    /\ meta' = clean_package_name(meta)
    /\ t2' = [t2 EXCEPT !.pc = "cleaning"]
    /\ UNCHANGED overlap
    /\ UNCHANGED Thread1

T2CleanComponent ==
    /\ t2.pc = "cleaning"
    /\ meta' = clean_component(meta)
    /\ t2' = [t2 EXCEPT !.pc = "done", !.ret = FALSE]
    /\ UNCHANGED overlap
    /\ UNCHANGED Thread1

NextPar ==
    \/ P1LoadBegin
    \/ P1StartElement
    \/ P1EndElement
    \/ P1Characters
    \/ P1FatalError
    \/ P1EndDocument
    \/ P1FinishGood
    \/ P1CleanName
    \/ P1CleanComponent
    \/ T2LoadBegin
    \/ T2StartElement
    \/ T2EndElement
    \/ T2Characters
    \/ T2FatalError
    \/ T2EndDocument
    \/ T2FinishGood
    \/ T2CleanName
    \/ T2CleanComponent

SpecPar == Init /\ [][NextPar]_vars

\* ================================================================ claims
Idle == pc = "idle"

Absent(m) == m.package_name = NULL /\ m.component = NULL

RootOpen == Range(stack) \cap RootNames # {}

\* C1: a malformed document makes load return false and leaves both fields
\* absent, whatever matched before the error and whatever an earlier load left.
C1_MalformedClears ==
    (Idle /\ outcome = "bad") => (ret = FALSE /\ Absent(meta))

\* A malformed load that had stored text before the error, on a record that
\* held values of an earlier load.
C1_Witness ==
    /\ Idle
    /\ outcome = "bad"
    /\ prev.package_name # NULL
    /\ fresh.component # NULL

\* C2: after any sequence of loads the record is either all absent or holds
\* exactly what the most recent well-formed document yields on its own.
C2_ReloadNoResidue ==
    Idle => (Absent(meta) \/ meta = lastGood)

\* C3: when no tokenizer context can be created, load returns false, the
\* record keeps the values it had before the call, and no callback runs.
C3_NoContextKeepsRecord ==
    (Idle /\ outcome = "noctx") => (ret = FALSE /\ meta = prev /\ ~cb)

\* A failed context creation on a record that holds values.
C3_Witness ==
    /\ Idle
    /\ outcome = "noctx"
    /\ meta.package_name # NULL
    /\ meta.component # NULL

\* C4: <PISI><Package><Name>X</Name></Package></PISI> loaded into a new
\* record returns true with package_name = X and component absent, for every X.
C4_NameDocument ==
    \A k \in 1..MaxLen :
        (Idle /\ src = DocName("PISI", k) /\ Absent(prev))
            => /\ ret = TRUE
               /\ meta.package_name = << Text(k) >>
               /\ meta.component = NULL

\* The longest text has been loaded from such a document into a new record.
C4_Witness ==
    /\ Idle
    /\ src = DocName("PISI", MaxLen)
    /\ Absent(prev)
    /\ outcome = "good"

\* C5: <root><PartOf>Y</PartOf></root> and
\* <root><History><PartOf>Z</PartOf></History></root> both load with
\* component equal to the PartOf text, for either root spelling.
C5_PartOfDocument ==
    \A root \in RootNames, k \in 1..MaxLen :
        (Idle /\ src \in {DocPartOf(root, k), DocHistoryPartOf(root, k)})
            => (ret = TRUE /\ meta.component = << Text(k) >>)

\* The nested form has been loaded over a record that held another component.
C5_Witness ==
    /\ Idle
    /\ src = DocHistoryPartOf("SOL", 1)
    /\ prev.component = << Text(2) >>
    /\ outcome = "good"

\* C6: the load fed the document with PISI and SOL exchanged has, after
\* every event, the same flags and the same two fields.
C6_RootTagEquivalence ==
    flags = flagsSw /\ meta = metaSw

\* Both spellings are open at once and text has just been stored.
C6_Witness ==
    /\ "PISI" \in Range(stack)
    /\ "SOL" \in Range(stack)
    /\ wrote = "component"

\* C7 as stated: package_name is written only when the open elements are
\* exactly root, Package, Name, in that order, and nothing else.
C7_ExactChain ==
    wrote = "package_name"
        => /\ Len(stack) = 3
           /\ stack[1] \in RootNames
           /\ stack[2] = "Package"
           /\ stack[3] = "Name"

\* C7 amended: package_name is written only when the flags are exactly
\* root, Package and Name, and then a root element, a Package element and a
\* Name element are all open (in any order, other elements possibly open too).
C7_FlagsAndOpenElements ==
    wrote = "package_name"
        => /\ flags = MDATA_ROOT + MDATA_PACKAGE + MDATA_NAME
           /\ RootOpen
           /\ "Package" \in Range(stack)
           /\ "Name" \in Range(stack)

\* package_name has just been written inside root, Package, Name.
C7_Witness ==
    /\ wrote = "package_name"
    /\ stack = << "SOL", "Package", "Name" >>

\* C8: text of a Name element that is not inside a Package element is
\* never stored as package_name.
C8_NameOutsidePackage ==
    (stack # << >> /\ stack[Len(stack)] = "Name" /\ "Package" \notin Range(stack))
        => wrote # "package_name"

\* The characters callback has just run for a Name directly under the root
\* (flags are root and Name) and stored nothing.
C8_Witness ==
    /\ stack = << "PISI", "Name" >>
    /\ flags = MDATA_ROOT + MDATA_NAME
    /\ wrote = "none"

\* C9: load returns the tokenizer's wellFormed; a well-formed document
\* returns true whatever elements it lacks, and on a new record every field
\* no characters callback assigned is still absent.
C9_ReturnsWellFormed ==
    /\ (Idle /\ outcome \in {"good", "bad"}) => ret = wellFormed
    /\ (Idle /\ outcome = "good") => ret = TRUE
    /\ (Idle /\ outcome = "good" /\ Absent(prev))
         => /\ (fresh.package_name = NULL => meta.package_name = NULL)
            /\ (fresh.component = NULL => meta.component = NULL)

\* A well-formed document without a matching Name, loaded into a new record.
C9_Witness ==
    /\ Idle
    /\ outcome = "good"
    /\ Absent(prev)
    /\ meta.package_name = NULL
    /\ meta.component # NULL

\* C10: the characters callback assigns a field only while a PISI or SOL
\* element is open.
C10_NothingOutsideRoot ==
    wrote \in {"package_name", "component"} => RootOpen

\* The characters callback has just run inside a PartOf element that no
\* root element encloses, and stored nothing.
C10_Witness ==
    /\ wrote = "none"
    /\ ~RootOpen
    /\ stack # << >>
    /\ stack[Len(stack)] = "PartOf"
\* ------------------------------------------------ the tag tracker alone
\* The flag value of each name of the active-state set.
FlagBit(n) ==
    CASE n = "root" -> MDATA_ROOT
      [] n = "Package" -> MDATA_PACKAGE
      [] n = "History" -> MDATA_HISTORY
      [] n = "Source" -> MDATA_SOURCE
      [] n = "Name" -> MDATA_NAME
      [] n = "PartOf" -> MDATA_COMPONENT
      [] n = "Packager" -> MDATA_PACKAGER
      [] n = "Email" -> MDATA_EMAIL

\* The active-state set a flags value stands for, and back.
FlagSet(fl) == {n \in FlagNames : BitAnd(fl, FlagBit(n)) # 0}

RECURSIVE SetFlags(_)
SetFlags(S) ==
    IF S = {} THEN 0
    ELSE LET n == CHOOSE x \in S : TRUE IN FlagBit(n) + SetFlags(S \ {n})

\* A step that is one tag event, and the name of its tag.
IsTagStep ==
    /\ pc \in {"prolog", "content"}
    /\ pc' \in {"content", "epilog"}
    /\ stack' # stack

TagName ==
    IF Len(stack') > Len(stack) THEN stack'[Len(stack')] ELSE stack[Len(stack)]

\* The flags the open elements alone give: the tag callback applied to
\* each of them, outermost first, from no flag set.
RECURSIVE FlagsOf(_)
FlagsOf(st) ==
    IF st = << >> THEN 0
    ELSE sol_sax_flip_states(FlagsOf(SubSeq(st, 1, Len(st) - 1)), st[Len(st)])

\* C11 as stated: a flag is set exactly when an odd number of tag events
\* for its name have been seen.
C11_SeenParity ==
    flags = SetFlags(seen)

\* C11 amended: the root flag is set exactly when an odd number of PISI/SOL
\* events have been seen; every other flag is set exactly when an odd number
\* of events for its name have arrived while the root flag was set.
C11_AppliedParity ==
    /\ flags = SetFlags(applied)
    /\ ("root" \in FlagSet(flags)) <=> ("root" \in seen)

\* A Package tag was seen once, before the root opened, and its flag is clear.
C11_Witness ==
    /\ "Package" \in seen
    /\ FlagSet(flags) = {"root"}
    /\ stack = << "Package", "SOL" >>

\* C12: while the stream conforms to the schema (outermost element a root,
\* no recognised name open twice at once), the flags are exactly the
\* recognised names among the open elements.
C12_ToggleIsStack ==
    offSchema = {}
        => FlagSet(flags) = {FlagOfTag(stack[i]) : i \in 1..Len(stack)} \cap FlagNames

\* A conforming stream, three levels deep.
C12_Witness ==
    /\ offSchema = {}
    /\ stack = << "SOL", "History", "PartOf" >>
    /\ flags = MDATA_ROOT + MDATA_HISTORY + MDATA_COMPONENT

\* C14: a PISI or SOL tag event toggles the root flag and no other flag.
C14_RootTagTogglesRoot ==
    [][ (IsTagStep /\ TagName \in RootNames)
          => FlagSet(flags') = Toggle(FlagSet(flags), "root") ]_vars

\* A root tag has just cleared the root flag while another flag stays set.
C14_Witness ==
    /\ stack = << "PISI", "PartOf", "SOL" >>
    /\ flags = MDATA_COMPONENT

\* C15: while the root flag is clear, a tag event whose name is no root
\* spelling leaves the flags as they are.
C15_IgnoredOutsideRoot ==
    [][ (IsTagStep /\ TagName \notin RootNames /\ "root" \notin FlagSet(flags))
          => flags' = flags ]_vars

\* A PartOf tag has just arrived with the root flag clear and the PartOf
\* flag set, and the flags are as before.
C15_Witness ==
    /\ stack = << "PISI", "PartOf", "SOL", "PartOf" >>
    /\ flags = MDATA_COMPONENT

\* C16: while the root flag is set, a tag event named by a key of the
\* mapping toggles that key's flag only, any other non-root name changes
\* nothing; no tag event changes more than one flag.
C16_OneFlagPerTag ==
    [][ IsTagStep =>
          /\ ("root" \in FlagSet(flags) /\ TagName \notin RootNames)
               => FlagSet(flags') = IF TagName \in FlagNames
                                    THEN Toggle(FlagSet(flags), TagName)
                                    ELSE FlagSet(flags)
          /\ Cardinality((FlagSet(flags) \ FlagSet(flags'))
                           \cup (FlagSet(flags') \ FlagSet(flags))) <= 1 ]_vars

\* A Packager tag inside the root has set the Packager flag.
C16_Witness ==
    /\ stack = << "PISI", "Packager" >>
    /\ flags = MDATA_ROOT + MDATA_PACKAGER

\* C20: in a properly nested stream the end tag of an element undoes what
\* its start tag did (both applied or both ignored): the flags are those the
\* open elements alone give, and none is set once the stream is complete.
C20_BalancedStreamEndsEmpty ==
    /\ pc \in {"content", "epilog"} => flags = FlagsOf(stack)
    /\ pc = "epilog" => flags = 0

\* A complete stream in which a recognised name was open inside itself.
C20_Witness ==
    /\ pc = "epilog"
    /\ "nested" \in offSchema
    /\ seen = {}
\* ------------------------------------------------- characters and loads
\* C13: a characters callback with text T sets package_name to T, and
\* nothing else, when the flags are exactly root, Package, Name; otherwise
\* sets component to T, and nothing else, when the PartOf flag is set, with
\* or without the root flag; otherwise changes no field. It never changes
\* the flags.
C13_CharactersDispatch ==
    [][ text' # << >> =>
          /\ flags' = flags
          /\ IF FlagSet(flags) = {"root", "Package", "Name"}
             THEN /\ meta'.package_name = << text' >>
                  /\ meta'.component = meta.component
             ELSE IF "PartOf" \in FlagSet(flags)
             THEN /\ meta'.component = << text' >>
                  /\ meta'.package_name = meta.package_name
             ELSE meta' = meta ]_vars

\* The callback has just stored a component while the PartOf flag is set
\* and the root flag is not.
C13_Witness ==
    /\ text # << >>
    /\ wrote = "component"
    /\ "root" \notin FlagSet(flags)
    /\ meta.component = << text >>

\* C17: of several character runs inside one Name (or one PartOf) the last
\* one is what the field holds after the load, not the first and not all
\* of them joined.
C17_LastWriteWins ==
    \A root \in RootNames, k \in 1..MaxLen :
        LET j == MaxLen + 1 - k
        IN /\ (Idle /\ src = DocTwoNames(root, k, j))
                => (ret = TRUE /\ meta.package_name = << Text(j) >>)
           /\ (Idle /\ src = DocTwoPartOf(root, k, j))
                => (ret = TRUE /\ meta.component = << Text(j) >>)

\* A Name with a longer run followed by a shorter one has been loaded.
C17_Witness ==
    /\ Idle
    /\ src = DocTwoNames("PISI", MaxLen, 1)
    /\ meta.package_name = << Text(1) >>

\* The events of the current document the tokenizer has delivered.
Consumed == SubSeq(src, 1, Len(src) - Len(script))

\* The flags a load has after these events when it starts with none set.
RECURSIVE EventFlags(_)
EventFlags(ev) ==
    IF ev = << >> THEN 0
    ELSE LET e == ev[Len(ev)]
             f == EventFlags(SubSeq(ev, 1, Len(ev) - 1))
         IN IF e.type = "chars" THEN f ELSE sol_sax_flip_states(f, e.name)

\* C18: every load starts with no flag set, and its flags depend on the
\* events of its own document only, whatever flags the load before left.
C18_FlagsNotCarriedOver ==
    /\ pc = "prolog" => flags = 0
    /\ pc \in {"prolog", "content", "epilog"} => flags = EventFlags(Consumed)

\* The load before stopped with flags set, and this load has just matched
\* a package name.
C18_Witness ==
    /\ left # 0
    /\ pc = "content"
    /\ wrote = "package_name"
\* ------------------------------------------------------- two threads
\* What one sol_metadata_load running alone makes of a record m and a
\* document: the tokenizer and the callbacks over the events in order, the
\* record cleared when the document is malformed.
RECURSIVE RunEvents(_, _, _, _, _)
RunEvents(ev, st, fl, m, ph) ==
    IF ev = << >> THEN [ok |-> ph = "epilog", metadata |-> m]
    ELSE LET e == Head(ev)
         IN IF e.type = "open" /\ ph \in {"prolog", "content"}
            THEN RunEvents(Tail(ev), Append(st, e.name),
                           sol_sax_flip_states(fl, e.name), m, "content")
            ELSE IF e.type = "close" /\ ph = "content" /\ e.name = st[Len(st)]
            THEN RunEvents(Tail(ev), SubSeq(st, 1, Len(st) - 1),
                           sol_sax_flip_states(fl, e.name), m,
                           IF Len(st) = 1 THEN "epilog" ELSE "content")
            ELSE IF e.type = "chars" /\ ph = "content"
            THEN RunEvents(Tail(ev), st, fl,
                           sol_sax_characters([flags |-> fl, metadata |-> m],
                                              Buffer(e.len), e.len).metadata,
                           ph)
            ELSE [ok |-> FALSE, metadata |-> m]

SeqLoad(m, doc) ==
    LET r == RunEvents(doc, << >>, 0, m, "prolog")
    IN IF r.ok THEN r.metadata ELSE [package_name |-> NULL, component |-> NULL]

\* The records the two sequential orders of the two loads end with.
SeqOutcomes ==
    { SeqLoad(SeqLoad(sol_metadata_new, src), t2.src),
      SeqLoad(SeqLoad(sol_metadata_new, t2.src), src) }

BothDone == pc = "idle" /\ loads = 1 /\ t2.pc = "done"

\* C19: two loads on one record are safe only when they do not overlap:
\* loads that ran one after the other leave what a sequential order
\* leaves, while overlapping loads can leave a record neither order
\* produces (the state C19_Witness describes).
C19_SerialLoadsAreSequential ==
    (BothDone /\ ~overlap) => meta \in SeqOutcomes

\* Two overlapping loads of well-formed documents have both returned true
\* and the record holds the package name of one document with the
\* component of the other, which neither sequential order leaves.
C19_Witness ==
    /\ BothDone
    /\ overlap
    /\ ret = TRUE
    /\ t2.ret = TRUE
    /\ meta.package_name # NULL
    /\ meta.component # NULL
    /\ meta \notin SeqOutcomes
====
